---- MODULE Spec2Model ----
(***************************************************************************)
(* State-machine model of main.js (PAWS auto quest client): the retrying   *)
(* transport (ApiService.makeRequest), the token cache (TokenManager), the *)
(* quest engine (QuestManager) and the orchestrator (PawsClient).          *)
(*                                                                         *)
(* The program is single threaded; every await of an HTTP request is a     *)
(* suspension point.  A control state pc names the request the program is  *)
(* awaiting; one action takes the program from one await to the next.      *)
(* Array positions are 1-based here (JavaScript's i = 0 is i = 1).         *)
(***************************************************************************)
EXTENDS Integers, Sequences, FiniteSets, TLC

(***************************************************************************)
(* Bounds of the model.                                                    *)
(***************************************************************************)
MaxAccounts == 3   \* lines of data.txt / wallet.txt
MaxGood == 2       \* lines of data.txt that parse
MaxUsers == 2      \* distinct user ids found in the blobs
MaxNow == 2        \* clock readings 0..MaxNow (epoch seconds, scaled)
MaxExp == 1        \* exp values 0..MaxExp carried by tokens
MaxQuests == 2     \* length of a quest list returned by the service

(***************************************************************************)
(* Program constants.                                                      *)
(***************************************************************************)
maxRetries == 3    \* makeRequest(config, maxRetries = 3, retryDelay = 5000)

UserIds == 1..MaxUsers
Statuses == {200, 201, 204}   \* axios resolves only for 2xx statuses

(***************************************************************************)
(* Tokens.  A token value is JavaScript's undefined (no entry in the token *)
(* map), the empty string, or a non-empty string.  Of a non-empty string   *)
(* the model keeps n, the number of segments token.split(".") yields, and  *)
(* what base64-decoding and JSON.parse make of the second segment:         *)
(*   "garbage" bytes that are not JSON, or no bytes (JSON.parse throws)    *)
(*   "null"    the JSON value null                                         *)
(*   "scalar"  a JSON number, string, boolean or array                     *)
(*   "object"  a JSON object, with or without an exp member                *)
(***************************************************************************)
Tok(t, n, j, h, e) == [t |-> t, n |-> n, json |-> j, hasExp |-> h, exp |-> e]
Undefined == Tok("undef", 0, "garbage", FALSE, 0)
TokEmpty == Tok("empty", 1, "garbage", FALSE, 0)
TokNoDot == Tok("str", 1, "garbage", FALSE, 0)
TokGarbage == Tok("str", 3, "garbage", FALSE, 0)
TokNull == Tok("str", 3, "null", FALSE, 0)
TokScalar == Tok("str", 3, "scalar", FALSE, 0)
TokPerpetual == Tok("str", 3, "object", FALSE, 0)
TokExp(e) == Tok("str", 3, "object", TRUE, e)

\* JavaScript truthiness of a token value: undefined and "" are falsy.
Truthy(token) == token.t = "str"

\* Truthiness of a number (decodedPayload.exp): 0 is falsy.
TruthyNum(n) == n # 0

\* [, payload] = token.split("."); JSON.parse(Buffer.from(payload, "base64"));
\* decodedPayload.exp.  "throw" when any of these raises: undefined has no
\* split, Buffer.from(undefined) and JSON.parse of non-JSON throw, and null
\* has no members.
DecodeExp(token) ==
  IF token.t = "undef" \/ token.n < 2 THEN [r |-> "throw", exp |-> 0]
  ELSE CASE token.json = "garbage" -> [r |-> "throw", exp |-> 0]
         [] token.json = "null" -> [r |-> "throw", exp |-> 0]
         [] token.json = "scalar" -> [r |-> "undefined", exp |-> 0]
         [] token.json = "object" ->
              IF token.hasExp THEN [r |-> "number", exp |-> token.exp]
              ELSE [r |-> "undefined", exp |-> 0]

\* isExpired with a token without exp taken for expired.
isExpiredWithoutExp(token, t) ==
  LET d == DecodeExp(token) IN
    IF d.r = "throw" THEN TRUE
    ELSE IF d.r = "number" /\ TruthyNum(d.exp) THEN t > d.exp
    ELSE TRUE

\* TokenManager.isExpired(token) at clock reading t.
isExpired(token, t) ==
  LET d == DecodeExp(token) IN
    IF d.r = "throw" THEN TRUE
    ELSE IF d.r = "number" /\ TruthyNum(d.exp) THEN t > d.exp
    ELSE FALSE


(***************************************************************************)
(* Credential blobs (lines of data.txt).  processAccount computes          *)
(*   JSON.parse(decodeURIComponent(                                        *)
(*       accountData.split("user=")[1].split("&")[0])).id                  *)
(* A blob is characterised by what that expression makes of it:            *)
(*   "missing" no "user=" in the line (split(...)[1] is undefined)         *)
(*   "baduri"  decodeURIComponent throws URIError                          *)
(*   "badjson" JSON.parse throws SyntaxError                               *)
(*   "null"    the user field is the JSON value null                       *)
(*   "object"  a JSON object with member id                                *)
(***************************************************************************)
Blob(u, id) == [user |-> u, id |-> id]
GoodBlobs == {Blob("object", u) : u \in UserIds}
MalformedBlobs == {Blob("missing", 0), Blob("badjson", 0)}
Blobs == GoodBlobs \cup MalformedBlobs

ParseUserId(blob) ==
  CASE blob.user = "missing" -> [r |-> "throw", id |-> 0]
    [] blob.user = "baduri" -> [r |-> "throw", id |-> 0]
    [] blob.user = "badjson" -> [r |-> "throw", id |-> 0]
    [] blob.user = "null" -> [r |-> "throw", id |-> 0]
    [] blob.user = "object" -> [r |-> "ok", id |-> blob.id]

SeqsUpTo(S, n) == UNION {[1..k -> S] : k \in 0..n}

\* wallet.txt: the address on line k is the number k, so that two lines
\* never carry the same address.
WalletFile(n) == [k \in 1..n |-> k]

(***************************************************************************)
(* Quests, as the service lists them.                                      *)
(***************************************************************************)
\* The quest on line k of a list has id k.
Quest(id, c) == [id |-> id, claimed |-> c]
QuestLists ==
  UNION {{[k \in 1..n |-> Quest(k, c[k])] : c \in [1..n -> BOOLEAN]} :
           n \in 0..MaxQuests}

\* The filter keeping every quest.
KeepQuestAll(quest) == TRUE

\* response.data.data.filter((quest) => !quest.progress.claimed)
KeepQuest(quest) == ~quest.claimed
filter(list) == SelectSeq(list, KeepQuest)

(***************************************************************************)
(* Tokens the service issues in this model.                                *)
(***************************************************************************)
IssuedTokens == {TokExp(e) : e \in 1..MaxExp} \cup {TokPerpetual, TokNoDot}

VARIABLES
  data,       \* lines of data.txt
  wallets,    \* this.wallets (lines of wallet.txt)
  tokens,     \* this.tokenManager.tokens
  disk,       \* contents of token.json
  writeFails, \* failed writes of token.json since the last one that succeeded
  now,        \* last reading of the clock
  pc,         \* control state of main()
  i,          \* loop index of main()'s for loop
  req,        \* the makeRequest call in progress
  last,       \* how the makeRequest call that ended in the last step ended
  pass,       \* what the current processAccount call has done so far
  cyc,        \* what the current cycle has done so far
  quests,     \* questsResult.data in processQuests
  qi,         \* position of processQuests' for loop
  exited,     \* process.exit
  netUsed,    \* an HTTP request has been issued
  ev          \* what the call that ended in the last step received and logged

vars == <<data, wallets, tokens, disk, writeFails, now, pc, i, req, last, pass,
          cyc, quests, qi, exited, netUsed, ev>>

MaxWriteFails == 1  \* bound on consecutive failed writes of token.json

ReqPcs == {"auth", "profile", "link", "list", "complete", "claim"}

NoPass ==
  [acct |-> 0, uid |-> 0, cached |-> Undefined, checked |-> FALSE,
   expired |-> FALSE,
   authCalls |-> 0, ret |-> "none", token |-> Undefined, issued |-> {},
   linkArgs |-> <<>>, rawList |-> <<>>, completeArgs |-> <<>>,
   claimArgs |-> <<>>]

NoCycle == [authFailed |-> {}]

\* No response: makeRequest threw, or no call ended in the last step.
NoResp == [status |-> 0]

\* call: the endpoint of the call that ended; r: the response received;
\* hasReward: questData.rewards[0] exists (claim); warned, error:
\* logger.warn in completeQuest, logger.error in the caller.
Event(call, r, hasReward, warned, error) ==
  [call |-> call, r |-> r, hasReward |-> hasReward, warned |-> warned,
   error |-> error]
NoEv == Event("none", NoResp, FALSE, FALSE, FALSE)

NoReq == [attempt |-> 0, fails |-> 0, warns |-> 0, state |-> "none"]
NewReq == [attempt |-> 1, fails |-> 0, warns |-> 0, state |-> "pending"]

\* TokenManager.loadTokens: a missing or unparsable file is the empty map.
EmptyMap == [u \in UserIds |-> Undefined]
CorruptFile == [ok |-> FALSE, map |-> EmptyMap]
File(m) == [ok |-> TRUE, map |-> m]
loadTokens(file) == IF file.ok THEN file.map ELSE EmptyMap

\* User ids are interchangeable: the files considered name them in the
\* order of their first occurrence.
InOrder(d) ==
  \A k \in 1..Len(d) :
    d[k].user = "object" =>
      \A u \in 1..(d[k].id - 1) :
        \E j \in 1..(k - 1) : d[j].user = "object" /\ d[j].id = u

GoodLines(d) == {k \in 1..Len(d) : d[k].user = "object"}

Init ==
  /\ data \in {d \in SeqsUpTo(Blobs, MaxAccounts) :
                 InOrder(d) /\ Cardinality(GoodLines(d)) <= MaxGood}
  /\ wallets \in {WalletFile(n) : n \in 0..MaxAccounts}
  /\ disk = File(EmptyMap)
  /\ tokens = loadTokens(disk)
  /\ writeFails = 0
  /\ now = 0
  /\ pc = "main"
  /\ i = 1
  /\ req = NoReq
  /\ last = "none"
  /\ pass = NoPass
  /\ cyc = NoCycle
  /\ quests = <<>>
  /\ qi = 0
  /\ exited = [code |-> 0, by |-> "none"]
  /\ netUsed = FALSE
  /\ ev = NoEv


(***************************************************************************)
(* ApiService.makeRequest.  attempt counts the calls of axios; an attempt  *)
(* either resolves (ok) or throws.                                         *)
(***************************************************************************)
\* The throw one attempt early.
IsFinalAttemptEarly(attempt) == attempt = maxRetries - 1

\* if (attempt === maxRetries) throw error;
IsFinalAttempt(attempt) == attempt = maxRetries

\* makeRequest warning of the last failure too.
makeRequestWarnFinal(r, ok) ==
  IF ok THEN [r EXCEPT !.state = "returned"]
  ELSE IF IsFinalAttempt(r.attempt)
    THEN [r EXCEPT !.fails = @ + 1, !.warns = @ + 1, !.state = "threw"]
    ELSE [r EXCEPT !.fails = @ + 1, !.warns = @ + 1, !.attempt = @ + 1]

makeRequest(r, ok) ==
  IF ok THEN [r EXCEPT !.state = "returned"]
  ELSE IF IsFinalAttempt(r.attempt)
    THEN [r EXCEPT !.fails = @ + 1, !.state = "threw"]
    ELSE [r EXCEPT !.fails = @ + 1, !.warns = @ + 1, !.attempt = @ + 1]

\* The while loop of the call in progress is running.
Running == pc \in ReqPcs /\ req.state = "pending" /\ req.attempt <= maxRetries

\* An attempt other than the last throws: a warning, the delay, the next
\* attempt.
AxiosRetry ==
  /\ Running
  /\ makeRequest(req, FALSE).state = "pending"
  /\ req' = makeRequest(req, FALSE)
  /\ last' = "none"
  /\ ev' = NoEv
  /\ UNCHANGED <<data, wallets, tokens, disk, writeFails, now, pc, i, pass,
                 cyc, quests, qi, exited, netUsed>>

\* The call in progress ends in this step with outcome state ("returned" or
\* "threw"): the attempt in progress resolves, or it is the last and throws.
Ends(state) ==
  /\ Running
  /\ \E ok \in BOOLEAN : makeRequest(req, ok).state = state
  /\ state # "pending"
  /\ last' = state

Outcomes == {"returned", "threw"}

\* The responses to consider when the call ends: none was received when
\* makeRequest threw (one arbitrary value stands for the unused binding).
Received(state, responses) ==
  IF state = "returned" THEN responses ELSE {CHOOSE r \in responses : TRUE}

\* The response the caller saw.
Seen(state, r) == IF state = "returned" THEN r ELSE NoResp

(***************************************************************************)
(* The service adapters: what each makes of the outcome of makeRequest.    *)
(* bodyOk = FALSE stands for a body the adapter's own code throws on       *)
(* (destructuring, extractUserData, filter), which its catch turns into a  *)
(* failure.                                                                *)
(***************************************************************************)
\* Only a well-formed body with the success flag carries a token.
AuthResponses ==
  [status : Statuses, success : BOOLEAN, bodyOk : BOOLEAN, token : {Undefined}]
    \cup [status : Statuses, success : {TRUE}, bodyOk : {TRUE}, token : IssuedTokens]

\* authenticate without the test of the status.
authenticateAnyStatus(state, r) ==
  IF state = "threw" THEN [success |-> FALSE, token |-> Undefined]
  ELSE IF r.success /\ r.bodyOk
    THEN [success |-> TRUE, token |-> r.token]
    ELSE [success |-> FALSE, token |-> Undefined]

authenticate(state, r) ==
  IF state = "threw" THEN [success |-> FALSE, token |-> Undefined]
  ELSE IF r.status = 201 /\ r.success /\ r.bodyOk
    THEN [success |-> TRUE, token |-> r.token]
    ELSE [success |-> FALSE, token |-> Undefined]

\* wallet: the profile names a wallet.
ProfileResponses ==
  [status : Statuses, success : BOOLEAN, bodyOk : {TRUE}, wallet : BOOLEAN]
    \cup [status : Statuses, success : BOOLEAN, bodyOk : {FALSE}, wallet : {FALSE}]

\* getUserInfo without the wallet member.
getUserInfoNoWallet(state, r) ==
  IF state = "threw" THEN [success |-> FALSE, wallet |-> FALSE]
  ELSE IF r.status = 200 /\ r.success /\ r.bodyOk
    THEN [success |-> TRUE, wallet |-> FALSE]
    ELSE [success |-> FALSE, wallet |-> FALSE]

getUserInfo(state, r) ==
  IF state = "threw" THEN [success |-> FALSE, wallet |-> FALSE]
  ELSE IF r.status = 200 /\ r.success /\ r.bodyOk
    THEN [success |-> TRUE, wallet |-> r.wallet]
    ELSE [success |-> FALSE, wallet |-> FALSE]

LinkResponses == [status : Statuses, success : BOOLEAN]

linkWallet(state, r) ==
  IF state = "threw" THEN [success |-> FALSE]
  ELSE [success |-> r.status = 201 /\ r.success]

\* Only a well-formed body with the success flag carries a list.
ListResponses ==
  [status : Statuses, success : BOOLEAN, bodyOk : BOOLEAN, list : {<<>>}]
    \cup [status : Statuses, success : {TRUE}, bodyOk : {TRUE}, list : QuestLists]

getQuestsList(state, r) ==
  IF state = "threw" THEN [success |-> FALSE, data |-> <<>>]
  ELSE IF r.status = 200 /\ r.success /\ r.bodyOk
    THEN [success |-> TRUE, data |-> filter(r.list)]
    ELSE [success |-> FALSE, data |-> <<>>]

\* data is the body's data member: true, false or anything else.
CompleteResponses ==
  [status : Statuses, success : BOOLEAN, bodyOk : {TRUE},
   data : {"true", "false", "other"}]
    \cup [status : Statuses, success : {FALSE}, bodyOk : {FALSE}, data : {"other"}]

completeQuest(state, r) ==
  IF state = "threw" \/ ~r.bodyOk
    THEN [success |-> FALSE, needsClaim |-> FALSE, warned |-> FALSE]
  ELSE IF r.status \in {200, 201} /\ r.success
    THEN [success |-> TRUE, needsClaim |-> FALSE, warned |-> FALSE]
  ELSE IF r.status \in {200, 201} /\ r.data = "true"
    THEN [success |-> TRUE, needsClaim |-> TRUE, warned |-> FALSE]
  ELSE [success |-> FALSE, needsClaim |-> FALSE, warned |-> r.data = "false"]

\* axios resolves with a response object, which is truthy;
\* questData.rewards[0].amount throws when the quest has no reward.
claimQuest(state, hasReward) ==
  IF state = "threw" THEN [success |-> FALSE]
  ELSE [success |-> hasReward]

(***************************************************************************)
(* PawsClient.validateWalletFile and the start of main().                  *)
(***************************************************************************)
\* The check that accepts every pair of files.
validateWalletFileAlways(ws, d) == TRUE

validateWalletFile(ws, d) == Len(ws) = Len(d)

main ==
  /\ pc = "main"
  /\ IF ~validateWalletFile(wallets, data)
       THEN /\ pc' = "exit"
            /\ exited' = [code |-> 1, by |-> "validate"]
       ELSE /\ pc' = "loop"
            /\ UNCHANGED exited
  /\ UNCHANGED <<data, wallets, tokens, disk, writeFails, now, i, req, last,
                 pass, cyc, quests, qi, netUsed, ev>>

(***************************************************************************)
(* PawsClient.processAccount up to its first await, ensureValidToken       *)
(* included.  A throw of the blob parse leaves main() and reaches          *)
(* client.main().catch, which exits with code 1.                           *)
(***************************************************************************)
\* The test without the expiry check.
NeedsAuthNoExpiry(userToken, t) == ~Truthy(userToken)

\* if (!userToken || this.tokenManager.isExpired(userToken))
NeedsAuth(userToken, t) == ~Truthy(userToken) \/ isExpired(userToken, t)

\* this.wallets[i]
WalletOf(ws, k) == ws[k]

\* The program awaits makeRequest for endpoint ep; list and k are
\* processQuests' questsResult.data and the position of its for loop.
Await(ep, list, k) ==
  /\ pc' = ep
  /\ req' = NewReq
  /\ quests' = list
  /\ qi' = k
  /\ UNCHANGED <<i, cyc>>

\* processAccount returns: main()'s for loop moves to the next account.
Return(c) ==
  /\ pc' = "loop"
  /\ i' = i + 1
  /\ req' = NoReq
  /\ cyc' = c
  /\ quests' = <<>>
  /\ qi' = 0

processAccount ==
  /\ pc = "loop"
  /\ i <= Len(data)
  /\ last' = "none"
  /\ ev' = NoEv
  /\ LET p == ParseUserId(data[i]) IN
     IF p.r = "throw"
       THEN /\ pc' = "exit"
            /\ exited' = [code |-> 1, by |-> "catch"]
            /\ pass' = [NoPass EXCEPT !.acct = i]
            /\ UNCHANGED <<now, req, netUsed, cyc, i, quests, qi>>
       ELSE \E t \in now..MaxNow :
            LET userToken == tokens[p.id]
                started == [NoPass EXCEPT !.acct = i, !.uid = p.id,
                              !.cached = userToken,
                              !.checked = Truthy(userToken),
                              !.expired = Truthy(userToken) /\ isExpired(userToken, t)]
            IN
            /\ now' = t
            /\ netUsed' = TRUE
            /\ UNCHANGED exited
            /\ IF NeedsAuth(userToken, t)
                 THEN /\ Await("auth", <<>>, 0)
                      /\ pass' = [started EXCEPT !.authCalls = 1, !.issued = {"auth"}]
                 ELSE /\ Await("profile", <<>>, 0)
                      /\ pass' = [started EXCEPT !.ret = "token", !.token = userToken,
                                                 !.issued = {"profile"}]
  /\ UNCHANGED <<data, wallets, tokens, disk, writeFails>>

\* saveToken writing the new entry alone.
saveTokenEntryOnly(userId, token, file) ==
  /\ tokens' = [tokens EXCEPT ![userId] = token]
  /\ \/ /\ disk' = File([EmptyMap EXCEPT ![userId] = token])
        /\ writeFails' = 0
     \/ /\ writeFails < MaxWriteFails
        /\ writeFails' = writeFails + 1
        /\ disk' = file

\* saveToken writing the file before it updates the map.
saveTokenWriteFirst(userId, token, file) ==
  \/ /\ tokens' = [tokens EXCEPT ![userId] = token]
     /\ disk' = File(tokens')
     /\ writeFails' = 0
  \/ /\ writeFails < MaxWriteFails
     /\ writeFails' = writeFails + 1
     /\ disk' = file
     /\ tokens' = tokens

\* TokenManager.saveToken: the map is updated, then the whole map is
\* written; a failed write leaves the old file or a truncated one.
saveToken(userId, token, file) ==
  /\ tokens' = [tokens EXCEPT ![userId] = token]
  /\ \/ /\ disk' = File(tokens')
        /\ writeFails' = 0
     \/ /\ writeFails < MaxWriteFails
        /\ writeFails' = writeFails + 1
        /\ disk' = file

\* ensureValidToken after authenticate, and processAccount up to getUserInfo.
authenticateDone ==
  /\ pc = "auth"
  /\ \E state \in Outcomes, r \in AuthResponses :
     /\ Ends(state)
     /\ r \in Received(state, AuthResponses)
     /\ LET authResult == authenticate(state, r) IN
        /\ ev' = Event(pc, Seen(state, r), FALSE, FALSE, ~authResult.success)
        /\ IF ~authResult.success
          THEN /\ pass' = [pass EXCEPT !.ret = "null"]
               /\ Return([cyc EXCEPT !.authFailed = @ \cup {i}])
               /\ UNCHANGED <<tokens, disk, writeFails>>
          ELSE /\ \E file \in {disk, CorruptFile} :
                    saveToken(pass.uid, authResult.token, file)
               /\ IF ~Truthy(authResult.token)
                    THEN /\ pass' = [pass EXCEPT !.ret = "token",
                                                 !.token = authResult.token]
                         /\ Return(cyc)
                    ELSE /\ pass' = [pass EXCEPT !.ret = "token",
                                                 !.token = authResult.token,
                                                 !.issued = @ \cup {"profile"}]
                         /\ Await("profile", <<>>, 0)
  /\ UNCHANGED <<data, wallets, now, exited, netUsed>>

\* this.questManager.processQuests(token) up to its first await.
processQuests(p) ==
  /\ Await("list", <<>>, 0)
  /\ pass' = [p EXCEPT !.issued = @ \cup {"list"}]

\* processAccount returning when the profile could not be read.
getUserInfoDoneStop ==
  /\ pc = "profile"
  /\ \E state \in Outcomes, r \in ProfileResponses :
     /\ Ends(state)
     /\ r \in Received(state, ProfileResponses)
     /\ LET userInfo == getUserInfo(state, r) IN
        /\ ev' = Event(pc, Seen(state, r), FALSE, FALSE, ~userInfo.success)
        /\ IF ~userInfo.success
             THEN /\ pass' = pass
                  /\ Return(cyc)
             ELSE IF ~userInfo.wallet
               THEN /\ Await("link", <<>>, 0)
                    /\ pass' = [pass EXCEPT !.issued = @ \cup {"link"},
                                  !.linkArgs = Append(@, WalletOf(wallets, i))]
               ELSE processQuests(pass)
  /\ UNCHANGED <<data, wallets, tokens, disk, writeFails, now, exited, netUsed>>

\* processAccount after getUserInfo: the wallet is linked when the profile
\* was read and shows none; otherwise the quests are processed.
getUserInfoDone ==
  /\ pc = "profile"
  /\ \E state \in Outcomes, r \in ProfileResponses :
     /\ Ends(state)
     /\ r \in Received(state, ProfileResponses)
     /\ LET userInfo == getUserInfo(state, r) IN
        /\ ev' = Event(pc, Seen(state, r), FALSE, FALSE, ~userInfo.success)
        /\ IF userInfo.success /\ ~userInfo.wallet
          THEN /\ Await("link", <<>>, 0)
               /\ pass' = [pass EXCEPT !.issued = @ \cup {"link"},
                             !.linkArgs = Append(@, WalletOf(wallets, i))]
          ELSE processQuests(pass)
  /\ UNCHANGED <<data, wallets, tokens, disk, writeFails, now, exited, netUsed>>

\* ensureWalletLinked after linkWallet: the result is only logged.
linkWalletDone ==
  /\ pc = "link"
  /\ \E state \in Outcomes, r \in LinkResponses :
     /\ Ends(state)
     /\ r \in Received(state, LinkResponses)
     /\ LET linkResult == linkWallet(state, r) IN
        /\ ev' = Event(pc, Seen(state, r), FALSE, FALSE, ~linkResult.success)
        /\ processQuests(pass)
  /\ UNCHANGED <<data, wallets, tokens, disk, writeFails, now, exited, netUsed>>

\* processQuest calling claimQuest first.
processQuestClaimFirst(p, list, k) ==
  /\ Await("claim", list, k)
  /\ pass' = [p EXCEPT !.issued = @ \cup {"claim"},
                !.claimArgs = Append(@, list[k].id)]

\* processQuest(token, quest) up to its first await: completeQuest(quest._id).
processQuest(p, list, k) ==
  /\ Await("complete", list, k)
  /\ pass' = [p EXCEPT !.issued = @ \cup {"complete"},
                !.completeArgs = Append(@, list[k].id)]

\* The for loop left after its first quest.
AfterQuestStop(p, list, k) ==
  IF k = 0 /\ Len(list) > 0
    THEN processQuest(p, list, 1)
    ELSE /\ pass' = p
         /\ Return(cyc)

\* processQuests' for loop after quest k: the next quest, or the end of
\* processQuests and of processAccount.
AfterQuest(p, list, k) ==
  IF k < Len(list)
    THEN processQuest(p, list, k + 1)
    ELSE /\ pass' = p
         /\ Return(cyc)

\* processQuests after getQuestsList.
getQuestsListDone ==
  /\ pc = "list"
  /\ \E state \in Outcomes, r \in ListResponses :
     /\ Ends(state)
     /\ r \in Received(state, ListResponses)
     /\ LET questsResult == getQuestsList(state, r)
            p == [pass EXCEPT !.rawList = IF questsResult.success THEN r.list ELSE <<>>]
        IN
        /\ ev' = Event(pc, Seen(state, r), FALSE, FALSE, ~questsResult.success)
        /\ IF ~questsResult.success
          THEN /\ pass' = p
               /\ Return(cyc)
          ELSE AfterQuest(p, questsResult.data, 0)
  /\ UNCHANGED <<data, wallets, tokens, disk, writeFails, now, exited, netUsed>>

\* processQuest after completeQuest.
completeQuestDone ==
  /\ pc = "complete"
  /\ \E state \in Outcomes, r \in CompleteResponses :
     /\ Ends(state)
     /\ r \in Received(state, CompleteResponses)
     /\ LET completeResult == completeQuest(state, r) IN
        /\ ev' = Event(pc, Seen(state, r), FALSE, completeResult.warned,
                       ~completeResult.success)
        /\ IF completeResult.success /\ completeResult.needsClaim
          THEN /\ Await("claim", quests, qi)
               /\ pass' = [pass EXCEPT !.issued = @ \cup {"claim"},
                             !.claimArgs = Append(@, quests[qi].id)]
          ELSE AfterQuest(pass, quests, qi)
  /\ UNCHANGED <<data, wallets, tokens, disk, writeFails, now, exited, netUsed>>

\* processQuest after claimQuest: the result is only logged.
claimQuestDone ==
  /\ pc = "claim"
  /\ \E state \in Outcomes, hasReward \in BOOLEAN :
     /\ Ends(state)
     /\ LET claimResult == claimQuest(state, hasReward) IN
        /\ ev' = Event(pc, NoResp, state = "returned" /\ hasReward, FALSE,
                       ~claimResult.success)
        /\ AfterQuest(pass, quests, qi)
  /\ UNCHANGED <<data, wallets, tokens, disk, writeFails, now, exited, netUsed>>

\* main(): the for loop is over ("=== Cycle Completed ===").
cycleCompleted ==
  /\ pc = "loop"
  /\ i > Len(data)
  /\ pc' = "countdown"
  /\ last' = "none"
  /\ ev' = NoEv
  /\ UNCHANGED <<data, wallets, tokens, disk, writeFails, now, i, req, pass,
                 cyc, quests, qi, exited, netUsed>>

\* main(): countdown(1440 * 60) returns and the next cycle starts.
countdown ==
  /\ pc = "countdown"
  /\ pc' = "loop"
  /\ i' = 1
  /\ cyc' = NoCycle
  /\ pass' = NoPass
  /\ last' = "none"
  /\ ev' = NoEv
  /\ UNCHANGED <<data, wallets, tokens, disk, writeFails, now, req, quests, qi,
                 exited, netUsed>>

Next ==
  \/ main
  \/ processAccount
  \/ AxiosRetry
  \/ authenticateDone
  \/ getUserInfoDone
  \/ linkWalletDone
  \/ getQuestsListDone
  \/ completeQuestDone
  \/ claimQuestDone
  \/ cycleCompleted
  \/ countdown

Spec == Init /\ [][Next]_vars


(***************************************************************************)
(* TokenManager.isExpired on its own: every token string at every clock    *)
(* reading.  pass records the call as ensureValidToken's call is recorded. *)
(***************************************************************************)
AllTokens ==
  {TokEmpty, TokNoDot, TokGarbage, TokNull, TokScalar, TokPerpetual}
    \cup {TokExp(e) : e \in -1..MaxExp}

InitExpiry ==
  /\ data = <<>>
  /\ wallets = <<>>
  /\ tokens \in [UserIds -> AllTokens]
  /\ disk = File(tokens)
  /\ writeFails = 0
  /\ now \in 0..MaxNow
  /\ pc = "isExpired"
  /\ i = 1
  /\ req = NoReq
  /\ last = "none"
  /\ pass = NoPass
  /\ cyc = NoCycle
  /\ quests = <<>>
  /\ qi = 0
  /\ exited = [code |-> 0, by |-> "none"]
  /\ netUsed = FALSE
  /\ ev = NoEv

isExpiredCall ==
  /\ pc = "isExpired"
  /\ \E u \in UserIds :
       pass' = [NoPass EXCEPT !.uid = u, !.cached = tokens[u], !.checked = TRUE,
                              !.expired = isExpired(tokens[u], now)]
  /\ UNCHANGED <<data, wallets, tokens, disk, writeFails, now, pc, i, req, last,
                 cyc, quests, qi, exited, netUsed, ev>>

NextExpiry == isExpiredCall

SpecExpiry == InitExpiry /\ [][NextExpiry]_vars


(***************************************************************************)
(* Properties.                                                             *)
(***************************************************************************)
\* ensureValidToken has been called in the current processAccount.
Ensured == pass.uid # 0

\* The cached token was there and isExpired judged it not expired.
CachedValid == pass.checked /\ ~pass.expired

\* C1: ensureValidToken authenticates only when the cached token is absent
\* or judged expired: a cached token judged not expired is returned as it
\* is, without an authenticate request; otherwise authenticate is called
\* once, and the token a successful call issued is the one returned and the
\* map's entry for the user.
C1_AuthenticatesOnlyWhenNeeded ==
  Ensured =>
    /\ CachedValid =>
         /\ pass.authCalls = 0
         /\ "auth" \notin pass.issued
         /\ pass.ret = "token"
         /\ pass.token = pass.cached
         /\ tokens[pass.uid] = pass.cached
    /\ ~CachedValid =>
         /\ pass.authCalls = 1
         /\ "auth" \in pass.issued
         /\ pass.ret = "token" => tokens[pass.uid] = pass.token

\* An expired cached token was replaced by a newly issued one, which the
\* call returned.
C1_Witness ==
  /\ Ensured
  /\ pass.checked
  /\ pass.expired
  /\ pass.authCalls = 1
  /\ pass.ret = "token"
  /\ pass.token # pass.cached
  /\ tokens[pass.uid] = pass.token
  /\ pc = "profile"

\* processAccount has been called for account j in the current cycle.
Attempted(j) == j < i \/ (j = i /\ pass.acct = i)

\* C2: when authentication fails for an account, ensureValidToken returns
\* null, no other request is issued for that account in that cycle, and
\* every later account of the batch is processed.
C2_AuthFailureSkipsOneAccount ==
  /\ pass.ret = "null" => pass.issued = {"auth"}
  /\ \A k \in cyc.authFailed :
       pass.acct # k \/ (pass.ret = "null" /\ pass.issued = {"auth"})
  /\ pc \in {"exit", "countdown"} =>
       \A k \in cyc.authFailed : \A j \in (k + 1)..Len(data) : Attempted(j)

\* C3: a malformed blob is fatal for its account only: the process does not
\* terminate, and the accounts after it are processed in the same cycle.
C3_MalformedBlobSkipsOneAccount ==
  \A k \in 1..Len(data) :
    ParseUserId(data[k]).r = "throw" =>
      /\ ~(pc = "exit" /\ pass.acct = k)
      /\ pc = "countdown" => \A j \in (k + 1)..Len(data) : Attempted(j)

\* C4: once the length check has passed, no failure of an account or quest
\* terminates the process.
C4_CyclesNeverStop ==
  (pc # "main" /\ validateWalletFile(wallets, data)) => (pc # "exit" /\ exited.code = 0)

\* C5: a makeRequest call makes at most 3 attempts; it returns at the first
\* attempt that does not throw, all attempts before it having thrown and
\* been warned of; it throws only when the third attempt throws; and no
\* attempt follows the one that ended the call.
C5_AtMostThreeAttempts ==
  [][/\ pc' \in ReqPcs => req'.attempt \in 1..3
     /\ last' = "returned" =>
          /\ req.attempt \in 1..3
          /\ req.fails = req.attempt - 1
          /\ req.warns = req.fails
          /\ req.attempt = 3 => req.warns = 2
          /\ req'.attempt <= 1
     /\ last' = "threw" =>
          /\ req.attempt = 3
          /\ req.fails = 2
          /\ req.warns = 2
          /\ req'.attempt <= 1
     /\ (last' = "none" /\ req' # req /\ req.state = "pending") =>
          /\ req.attempt < 3
          /\ req'.attempt = req.attempt + 1
          /\ req'.warns = req.warns + 1
    ]_vars

\* The third attempt of a call is in progress after two attempts that threw
\* and two warnings.
C5_Witness ==
  /\ pc \in ReqPcs
  /\ req.attempt = 3
  /\ req.fails = 2
  /\ req.warns = 2

\* The token is a string whose payload decodes to an object with exp.
HasExp(token) ==
  token.t = "str" /\ token.n >= 2 /\ token.json = "object" /\ token.hasExp

\* C6: for a decodable token with an exp member, isExpired is true when
\* exp < now and false when exp >= now, for every integer exp.
C6_ExpiredIffExpBeforeNow ==
  (pass.checked /\ HasExp(pass.cached)) =>
    (pass.expired <=> pass.cached.exp < now)

\* The token is a string whose payload decodes to an object without exp.
IsPerpetual(token) ==
  token.t = "str" /\ token.n >= 2 /\ token.json = "object" /\ ~token.hasExp

\* C7: for a decodable token without exp, isExpired is false at every clock
\* reading, and ensureValidToken does not authenticate an account whose
\* cached token is such a token.
C7_PerpetualNeverExpires ==
  (Ensured /\ IsPerpetual(pass.cached)) =>
    /\ pass.checked
    /\ ~pass.expired
    /\ pass.authCalls = 0
    /\ "auth" \notin pass.issued
    /\ pass.token = pass.cached

\* A cached token without exp is used, at the last clock reading, as far as
\* the quest list without authentication.
C7_Witness ==
  /\ Ensured
  /\ IsPerpetual(pass.cached)
  /\ now = MaxNow
  /\ ~pass.expired
  /\ pc = "list"
  /\ pass.issued = {"profile", "list"}

\* The token has no second segment, or one that does not decode to an object.
Malformed(token) == token.t # "str" \/ token.n < 2 \/ token.json # "object"

\* C8: for a malformed token, isExpired is true.
C8_MalformedIsExpired ==
  (pass.checked /\ Malformed(pass.cached)) => pass.expired

\* C9: when the numbers of blobs and of wallets differ, the process exits
\* with code 1 before any request and before any account is processed;
\* when they are equal it never exits for this reason, and the wallet
\* linked for account i is the one on line i.
C9_MismatchRefusesToStart ==
  /\ Len(wallets) # Len(data) =>
       /\ pc \in {"main", "exit"}
       /\ ~netUsed
       /\ pass = NoPass
       /\ pc = "exit" => exited = [code |-> 1, by |-> "validate"]
  /\ Len(wallets) = Len(data) => exited.by # "validate"
  /\ \A k \in 1..Len(pass.linkArgs) : pass.linkArgs[k] = WalletFile(Len(wallets))[pass.acct]

\* 3 blobs and 2 wallets: the process has exited with code 1 and no request.
C9_Witness ==
  /\ Len(data) = 3
  /\ Len(wallets) = 2
  /\ pc = "exit"
  /\ exited = [code |-> 1, by |-> "validate"]
  /\ ~netUsed

\* The ids of the quests of list that are not claimed.
Unclaimed(list) == {list[k].id : k \in {j \in 1..Len(list) : ~list[j].claimed}}
Ids(s) == {s[k] : k \in 1..Len(s)}

\* C10: completeQuest and claimQuest are only called with the id of a quest
\* of the list the service returned whose claimed flag is false.
C10_OnlyUnclaimedQuests ==
  /\ Ids(pass.completeArgs) \subseteq Unclaimed(pass.rawList)
  /\ Ids(pass.claimArgs) \subseteq Unclaimed(pass.rawList)
  /\ \A k \in 1..Len(pass.rawList) :
       pass.rawList[k].claimed => pass.rawList[k].id \notin Ids(pass.completeArgs)

\* Of a list of a claimed and an unclaimed quest, the unclaimed one alone
\* was completed and claimed.
C10_Witness ==
  /\ Len(pass.rawList) = 2
  /\ pass.rawList[1].claimed
  /\ ~pass.rawList[2].claimed
  /\ pass.completeArgs = <<2>>
  /\ pass.claimArgs = <<2>>
  /\ pc = "loop"

\* completeQuest's response asks for a claim: 200/201, success flag false,
\* body data true.
AsksForClaim(r) ==
  r.status \in {200, 201} /\ ~r.success /\ r.data = "true"

\* s has no element twice.
NoRepeat(s) == \A j, k \in 1..Len(s) : s[j] = s[k] => j = k

\* C11: claimQuest is called once, after completeQuest, exactly when
\* completeQuest's response is 200/201 with success flag false and data
\* true, and the quest then is Done (no error); with the success flag the
\* quest is Completed, with data false it is Skipped (warned), otherwise it
\* is Failed (error), and claimQuest is not called.
C11_ClaimOnlyWhenAsked ==
  /\ ev.call = "complete" =>
       /\ pc = "claim" <=> (last = "returned" /\ AsksForClaim(ev.r))
       /\ (last = "returned" /\ ev.r.status \in {200, 201} /\ ev.r.success) =>
            (~ev.error /\ ~ev.warned)
       /\ (last = "returned" /\ ~(ev.r.status \in {200, 201} /\ ev.r.success)
             /\ ev.r.data = "false") => ev.warned
       /\ (pc # "claim" /\ ~(last = "returned" /\ ev.r.status \in {200, 201}
                              /\ ev.r.success)) => ev.error
  /\ pc = "claim" =>
       /\ pass.completeArgs # <<>>
       /\ pass.claimArgs # <<>>
       /\ pass.claimArgs[Len(pass.claimArgs)] = pass.completeArgs[Len(pass.completeArgs)]
  /\ NoRepeat(pass.claimArgs)
  /\ ev.call = "claim" => pc # "claim"
  /\ (ev.call = "claim" /\ last = "returned") => ~ev.error

\* C12: when the claim request returns a response, claimQuest reports
\* success (the quest is Done, no error), whatever the quest's data; the
\* quest is Failed only when makeRequest threw.
C12_AnyResponseIsSuccess ==
  ev.call = "claim" => (ev.error <=> last = "threw")

\* The ids of the unclaimed quests of list, in list order.
UnclaimedIds(list) ==
  LET RECURSIVE ids(_)
      ids(k) == IF k = 0 THEN <<>>
                ELSE IF list[k].claimed THEN ids(k - 1)
                ELSE Append(ids(k - 1), list[k].id)
  IN ids(Len(list))

\* C13: in a pass that fetched the quest list, completeQuest is called once
\* for each listed unclaimed quest, in list order, whatever became of the
\* earlier quests: during the loop the calls made are the first qi unclaimed
\* quests, and at the end of the pass all of them.
C13_EveryListedQuestAttempted ==
  /\ pc \in {"complete", "claim"} =>
       pass.completeArgs = SubSeq(UnclaimedIds(pass.rawList), 1, qi)
  /\ (pc \in {"loop", "countdown"} /\ "list" \in pass.issued) =>
       pass.completeArgs = UnclaimedIds(pass.rawList)

\* The first of two unclaimed quests failed for want of a response, and
\* completeQuest has been called for the second.
C13_Witness ==
  /\ pc = "complete"
  /\ qi = 2
  /\ ev.call = "complete"
  /\ last = "threw"
  /\ ev.error
  /\ pass.completeArgs = <<1, 2>>

\* authenticate succeeded in the last step, so saveToken was called.
Saved == ev.call = "auth" /\ ~ev.error

\* C14: after a saveToken whose write succeeds, loadTokens of the file maps
\* the user to the token just saved and every other user to the token the
\* map held for it before the save.
C14_SaveThenLoad ==
  [][(Saved' /\ writeFails' = 0) =>
       LET loaded == loadTokens(disk') IN
         /\ loaded[pass.uid] = ev'.r.token
         /\ \A u \in UserIds \ {pass.uid} : loaded[u] = tokens[u]
    ]_vars

\* A token was saved over an earlier one of the same user, the write
\* succeeded, and the file holds it next to another user's token.
C14_Witness ==
  /\ Saved
  /\ writeFails = 0
  /\ Truthy(pass.cached)
  /\ ev.r.token # pass.cached
  /\ loadTokens(disk)[pass.uid] = ev.r.token
  /\ \E u \in UserIds \ {pass.uid} : Truthy(loadTokens(disk)[u])

\* C15: when the write of a newly issued token fails, ensureValidToken
\* still returns the token, the map holds it, the pass goes on with the
\* profile, and the process does not exit; and the map's entry for a user
\* changes only when a token is saved for that user.
C15_WriteFailureSwallowed ==
  /\ []((Saved /\ writeFails > 0) =>
          /\ tokens[pass.uid] = ev.r.token
          /\ pass.ret = "token"
          /\ pass.token = ev.r.token
          /\ exited.code = 0
          /\ pc # "exit"
          /\ Truthy(ev.r.token) => pc = "profile")
  /\ [][\A u \in UserIds :
          tokens'[u] # tokens[u] => (Saved' /\ pass.uid = u)]_vars

\* In a later cycle the first account's token, whose write failed, is
\* reused from the map without authentication, the file not holding it.
C15_Witness ==
  /\ pc = "profile"
  /\ pass.acct = 1
  /\ pass.checked
  /\ ~pass.expired
  /\ pass.authCalls = 0
  /\ pass.token = pass.cached
  /\ loadTokens(disk)[pass.uid] # pass.cached

\* C16: linkWallet is called in a pass only when getUserInfo's response was
\* 200 with the success flag, a body that normalises and no wallet; at most
\* once, and with the wallet on the account's line.
C16_LinkOnlyWhenUnset ==
  /\ ev.call = "profile" =>
       (pc = "link" <=>
          /\ last = "returned"
          /\ ev.r.status = 200
          /\ ev.r.success
          /\ ev.r.bodyOk
          /\ ~ev.r.wallet)
  /\ pc = "link" => "profile" \in pass.issued
  /\ "link" \in pass.issued <=> Len(pass.linkArgs) = 1
  /\ Len(pass.linkArgs) <= 1
  /\ \A k \in 1..Len(pass.linkArgs) : pass.linkArgs[k] = wallets[pass.acct]
  /\ ev.call = "link" => pc = "list"

\* The second account's profile shows no wallet and linkWallet is called
\* with the second wallet.
C16_Witness ==
  /\ pc = "link"
  /\ ev.call = "profile"
  /\ pass.acct = 2
  /\ pass.linkArgs = <<wallets[2]>>

\* completeQuest returned a response that is neither a success nor a
\* request to claim.
NotCompleted ==
  /\ ev.call = "complete"
  /\ last = "returned"
  /\ ~(ev.r.status \in {200, 201} /\ ev.r.success)
  /\ ~AsksForClaim(ev.r)

\* C17: a completeQuest response with body data false makes the quest
\* Skipped: a warning is logged for it and no error; every other outcome
\* that is not a success is logged as an error.
C17_SkippedIsNotAnError ==
  /\ (NotCompleted /\ ev.r.data = "false") => (ev.warned /\ ~ev.error)
  /\ (NotCompleted /\ ev.r.data # "false") => (ev.error /\ ~ev.warned)
  /\ (ev.call = "complete" /\ last = "threw") => (ev.error /\ ~ev.warned)

\* The counts of the makeRequest call that ended in this step.
Final == makeRequest(req, last' = "returned")

\* C18 as stated: a makeRequest call logs as many warnings as it has failed
\* attempts, for 0, 1, 2 and 3 failed attempts.
C18_WarningPerFailedAttempt ==
  [][last' # "none" => Final.warns = Final.fails]_vars

\* C18 as amended: a makeRequest call logs one warning for each failed
\* attempt that a retry follows: as many warnings as failed attempts when
\* it returns (0, 1 or 2), and 2 warnings when all 3 attempts fail.
C18_WarningPerRetry ==
  [][last' # "none" =>
       /\ Final.fails \in 0..3
       /\ Final.state = "returned" => Final.warns = Final.fails
       /\ Final.state = "threw" => (Final.fails = 3 /\ Final.warns = 2)
       /\ Final.warns = Final.attempt - 1
    ]_vars

\* A completeQuest call has thrown after 3 failed attempts.
C18_Witness ==
  /\ last = "threw"
  /\ ev.call = "complete"
  /\ ev.error

\* A request is issued in this step.
Issues == pc' \in ReqPcs /\ (pc = "loop" \/ last' # "none")

\* The requests that may follow one another within a pass.
FollowedBy ==
  {<<"loop", "auth">>, <<"loop", "profile">>, <<"auth", "profile">>,
   <<"profile", "link">>, <<"profile", "list">>, <<"link", "list">>,
   <<"list", "complete">>, <<"complete", "claim">>, <<"complete", "complete">>,
   <<"claim", "complete">>}

\* C19: one request at a time, in the order authenticate, profile, wallet
\* link, quest list, then for each quest complete and claim; a request for
\* the next quest is issued only when the current quest's call has ended,
\* and one for the next account only when the pass of the current one has
\* returned.
C19_StrictlySequential ==
  [][/\ Issues =>
          /\ <<pc, pc'>> \in FollowedBy
          /\ i' = i
          /\ pass'.acct = i
          /\ req' = NewReq
          /\ pc # "loop" => (last' # "none" /\ pass.acct = i)
          /\ pc' = "complete" => qi' = qi + 1
          /\ pc' = "claim" => qi' = qi
     /\ (pc \in ReqPcs /\ last' = "none") => (pc' = pc /\ i' = i /\ qi' = qi)
     /\ i' # i =>
          \/ /\ i' = i + 1
             /\ pc' = "loop"
             /\ req' = NoReq
             /\ last' # "none"
             /\ pc \in {"complete", "claim"} => qi = Len(quests)
          \/ pc = "countdown" /\ i' = 1
    ]_vars

\* The second account's pass has issued every kind of request and is
\* claiming its second quest.
C19_Witness ==
  /\ i = 2
  /\ pass.acct = 2
  /\ pass.issued = ReqPcs
  /\ pc = "claim"
  /\ qi = 2

\* The pass of the account before i has returned.
PassOver == pc \in {"loop", "countdown"} /\ pass.acct = i - 1 /\ pass.acct > 0

\* C20: whenever ensureValidToken returned a token, the quest list is
\* requested in that pass, whether getUserInfo and linkWallet succeeded or
\* failed: the step after getUserInfo is linkWallet or the quest list, and
\* the step after linkWallet is the quest list.
C20_QuestsRunWithoutProfile ==
  /\ ev.call = "profile" => pc \in {"link", "list"}
  /\ (ev.call = "profile" /\ ev.error) => pc = "list"
  /\ ev.call = "link" => pc = "list"
  /\ (PassOver /\ pass.ret = "token" /\ Truthy(pass.token)) =>
       {"profile", "list"} \subseteq pass.issued

\* getUserInfo failed for want of a response and the quest list is requested.
C20_Witness ==
  /\ ev.call = "profile"
  /\ last = "threw"
  /\ ev.error
  /\ pc = "list"
  /\ "list" \in pass.issued

\* The authenticate call that ended in the last step failed: makeRequest
\* threw, or the response is not a 201 with the success flag and a body
\* that normalises.
AuthFailed ==
  /\ ev.call = "auth"
  /\ \/ last = "threw"
     \/ ~(ev.r.status = 201 /\ ev.r.success /\ ev.r.bodyOk)

\* A pass starts in this step; the map holds for its user a token that
\* isExpired judges expired.
StartsExpired == pc = "loop" /\ pc' \in ReqPcs /\ pass'.checked /\ pass'.expired

\* C21 as stated: a failed authentication changes neither the map nor the
\* file, an expired cached token stays and makes every later pass
\* authenticate again; the map and the file change only through a
\* successful authentication, and then only in the entry of its user.
C21_OnlyOwnEntryChanges ==
  [][/\ AuthFailed' =>
          /\ tokens' = tokens
          /\ disk' = disk
          /\ pass.checked => tokens'[pass.uid] = pass.cached
     /\ StartsExpired => pc' = "auth"
     /\ (tokens' # tokens \/ disk' # disk) => (ev'.call = "auth" /\ ~AuthFailed')
     /\ (ev'.call = "auth" /\ ~AuthFailed') =>
          \A u \in UserIds \ {pass.uid} :
            /\ tokens'[u] = tokens[u]
            /\ loadTokens(disk')[u] = loadTokens(disk)[u]
    ]_vars

\* C21 as amended: a failed authentication changes neither the map nor the
\* file, an expired cached token stays and makes every later pass
\* authenticate again; the map changes only through a successful
\* authentication, and then only in the entry of its user; the file changes
\* only in the saveToken of a successful authentication, which leaves it
\* as it was, unreadable, or holding the whole map.
C21_OnlyOwnEntryChangesInMemory ==
  [][/\ AuthFailed' =>
          /\ tokens' = tokens
          /\ disk' = disk
          /\ pass.checked => tokens'[pass.uid] = pass.cached
     /\ StartsExpired => pc' = "auth"
     /\ (tokens' # tokens \/ disk' # disk) => (ev'.call = "auth" /\ ~AuthFailed')
     /\ (ev'.call = "auth" /\ ~AuthFailed') =>
          /\ \A u \in UserIds \ {pass.uid} : tokens'[u] = tokens[u]
          /\ tokens'[pass.uid] = ev'.r.token
          /\ \/ disk' = disk
             \/ ~disk'.ok
             \/ loadTokens(disk') = tokens'
    ]_vars

\* The authentication of an account whose cached token is expired has
\* failed; the token is still in the map and in the file.
C21_Witness ==
  /\ AuthFailed
  /\ pc = "loop"
  /\ pass.checked
  /\ pass.expired
  /\ tokens[pass.uid] = pass.cached
  /\ disk.ok
  /\ loadTokens(disk)[pass.uid] = pass.cached

====
